---- MODULE Spec2Model ----
(***************************************************************************)
(* The JSON-RPC-over-stdio server of sales-intelligence-mcp                *)
(* (SalesIntelligenceMCPServer), its tool registry, its tool handlers and  *)
(* the ApiClient the handlers call, as a state machine of the Node event   *)
(* loop: a readline 'line' event runs the synchronous part of              *)
(* handleMessage, awaits leave continuations in the microtask queue or on  *)
(* an outbound HTTP call, and 'close' ends the process.                    *)
(***************************************************************************)
EXTENDS Integers, Sequences, FiniteSets, TLC

\* ------------------------------------------------------------------ bounds
\* Number of input lines the server reads in one run.
MaxLines == 2

\* ------------------------------------------------------- JSON-RPC constants
ParseErrorCode     == -32700
MethodNotFoundCode == -32601
ToolNotFoundCode   == -32602
InternalErrorCode  == -32603

\* ------------------------------------------------------------- input lines
\* Request ids.  "absent" is a request without an id member; the others are
\* the JSON number 0, the empty JSON string and a non-zero number.
IdAbsent == "absent"
Ids      == {"num:0", "str:", "num:7"}

\* The registry: Object.keys(tools) in insertion order.
getToolNames ==
  <<"find_sales_content", "get_competitive_intel",
    "find_process_workflows", "discover_playbooks">>

Range(s) == {s[k] : k \in 1..Len(s)}

\* Property names every plain object inherits from Object.prototype.
InheritedNames == {"constructor"}

\* tools[name]: "tool" for an own property, "inherited" for a truthy value
\* found on the prototype chain (it has no handler), "undefined" otherwise.
PlainObjectLookup(name) ==
  IF name \in Range(getToolNames) THEN "tool"
  ELSE IF name \in InheritedNames THEN "inherited"
  ELSE "undefined"

getTool(name) == PlainObjectLookup(name)

\* Shapes of params.arguments, named after the tool's principal field
\* (query / competitor / processType / solution).
ArgKinds ==
  {"absent", "empty_obj", "main_ok", "main_wrong_type",
   "main_out_of_range", "limit_out_of_range"}

MainField(tool) ==
  CASE tool = "find_sales_content"     -> "query"
    [] tool = "get_competitive_intel"  -> "competitor"
    [] tool = "find_process_workflows" -> "processType"
    [] OTHER                           -> "solution"

\* The argument shapes that differ in effect for each tool.
ArgKindsOf(tool) ==
  CASE tool = "find_sales_content" -> ArgKinds
    [] tool = "discover_playbooks" ->
         {"absent", "empty_obj", "main_ok", "main_wrong_type"}
    [] OTHER -> ArgKinds \ {"limit_out_of_range"}

Methods == {"initialize", "tools/list", "tools/call", "other", "missing"}

Line(v, method, id, params, name, args) ==
  [v |-> v, method |-> method, id |-> id,
   params |-> params, name |-> name, args |-> args]

\* A line of the input stream:
\*   v = "bad"   text JSON.parse rejects (the empty line included)
\*   v = "null"  the JSON value null
\*   v = "prim"  a JSON number, string, boolean or array
\*   v = "obj"   a JSON object
\* Lines varies the envelope: every kind of value, every method, every kind
\* of id, present and missing params, registered, unknown and inherited tool
\* names, and tool calls that settle at once or wait for the API client.
Lines ==
  { Line("bad", "missing", IdAbsent, "-", "-", "-"),
    Line("null", "missing", IdAbsent, "-", "-", "-"),
    Line("prim", "missing", IdAbsent, "-", "-", "-") }
  \cup { Line("obj", "initialize", i, "-", "-", "-") : i \in {"num:0", IdAbsent} }
  \cup { Line("obj", "tools/list", "num:7", "-", "-", "-") }
  \cup { Line("obj", "other", i, "-", "-", "-") : i \in {"num:0", "str:", IdAbsent} }
  \cup { Line("obj", "missing", "num:7", "-", "-", "-") }
  \cup { Line("obj", "tools/call", "num:7", "missing", "-", "-") }
  \cup { Line("obj", "tools/call", "num:7", "obj", n, "empty_obj") :
           n \in {"nonexistent_tool", "constructor"} }
  \cup { Line("obj", "tools/call", "num:7", "obj", "find_sales_content", "empty_obj") }
  \cup { Line("obj", "tools/call", i, "obj", "find_sales_content", "main_ok") :
           i \in {"str:", IdAbsent} }

\* CallLines varies the arguments: every registered tool with every shape of
\* arguments its schema rejects, three tools with arguments it accepts, and
\* a line that is not a call.
CallLines ==
  { Line("null", "missing", IdAbsent, "-", "-", "-"),
    Line("obj", "tools/call", "num:7", "obj", "find_sales_content", "main_ok"),
    Line("obj", "tools/call", "num:7", "obj", "find_process_workflows", "main_ok"),
    Line("obj", "tools/call", "num:7", "obj", "discover_playbooks", "main_ok") }
  \cup UNION { { Line("obj", "tools/call", "num:7", "obj", n, a) :
                    a \in ArgKindsOf(n) \ {"main_ok"} } :
                n \in Range(getToolNames) }

\* LogLines holds one line for each way the server logs: none at all, a
\* rejection Node reports, a call that reaches the API client, a call that
\* fails validation and a call whose tool has no handler.
LogLines ==
  { Line("bad", "missing", IdAbsent, "-", "-", "-"),
    Line("null", "missing", IdAbsent, "-", "-", "-"),
    Line("obj", "initialize", "num:0", "-", "-", "-"),
    Line("obj", "tools/call", "num:7", "obj", "find_sales_content", "main_ok"),
    Line("obj", "tools/call", "num:7", "obj", "find_process_workflows", "empty_obj"),
    Line("obj", "tools/call", "num:7", "obj", "constructor", "empty_obj") }

\* ------------------------------------------------------- input validation
\* The zod schema of each handler, as the set of issue paths parse(args)
\* reports; {} means the arguments pass.  RootPath is the empty path zod
\* reports when the argument value itself is not an object.
RootPath == ""

ZodParse(tool, a) ==
  CASE a = "absent"          -> {RootPath}
    [] a = "main_ok"         -> {}
    [] a = "main_wrong_type" -> {MainField(tool)}
    [] a = "empty_obj" ->
         IF tool = "discover_playbooks" THEN {} ELSE {MainField(tool)}
    [] a = "main_out_of_range" ->
         IF tool = "discover_playbooks" THEN {} ELSE {MainField(tool)}
    [] a = "limit_out_of_range" ->
         IF tool = "find_sales_content" THEN {"limit"} ELSE {}

\* A schema that lets every argument value through.
ZodParseNothing(tool, a) == {}

Validate(tool, a) == ZodParse(tool, a)

\* discover_playbooks: at least one of solution / segment / vertical is set.
HasFilter(a) == a \in {"main_ok", "limit_out_of_range"}

\* ------------------------------------------------------------ tool handlers
\* What a handler's promise settles with: ret = TRUE a returned text,
\* ret = FALSE a thrown Error.  paths lists the zod issue paths a validation
\* message prints; cause is the ApiClient error the text or the Error's
\* message quotes ("-" when there is none).
Outcome(ret, text, paths, cause) ==
  [ret |-> ret, text |-> text, paths |-> paths, cause |-> cause]
Returned(text, paths) == Outcome(TRUE, text, paths, "-")
Thrown(text)          == Outcome(FALSE, text, {}, "-")
NoOutcome             == Outcome(FALSE, "-", {}, "-")

\* formatValidationError: the 'Invalid Input' text with one line per issue,
\* "- <path>: <message>".
formatValidationError(issues) == Returned("InvalidInput", issues)

\* The repository carries two families of tool files.  In the "api" family
\* every handler calls the API client unconditionally; in the "demo" family
\* find_sales_content falls back to demo data and discover_playbooks reads
\* demo data only.
Builds == {"api", "demo"}

HandlerKind(b, tool) ==
  IF b = "demo" /\ tool = "find_sales_content" THEN "fallback"
  ELSE IF b = "demo" /\ tool = "discover_playbooks" THEN "demoOnly"
  ELSE "apiOnly"

\* The handler up to its first await: [next |-> "micro"] when its promise is
\* already settled with `outcome`, [next |-> "fetch"] when it is waiting for
\* apiClient.request.
Settled(o) == [next |-> "micro", outcome |-> o]
Calling    == [next |-> "fetch", outcome |-> NoOutcome]

HandlerStart(b, tool, a, client) ==
  LET issues == Validate(tool, a)
      kind   == HandlerKind(b, tool)
  IN  IF issues # {} THEN Settled(formatValidationError(issues))
      ELSE CASE kind = "apiOnly" ->
                  IF tool = "discover_playbooks" /\ ~HasFilter(a)
                    THEN Settled(Thrown("HandlerFailed"))
                  ELSE IF client = "null"
                    THEN Settled(Thrown("HandlerFailed"))
                  ELSE Calling
             [] kind = "fallback" ->
                  IF client = "null" THEN Settled(Returned("DemoResults", {}))
                  ELSE Calling
             [] OTHER ->
                  IF HasFilter(a) THEN Settled(Returned("DemoResults", {}))
                  ELSE Settled(Returned("MissingFilters", {}))

\* What ApiClient.request settles with: ok = TRUE the parsed JSON body,
\* ok = FALSE the Error it throws.
ApiOk(v)  == [ok |-> TRUE, v |-> v]
ApiErr(v) == [ok |-> FALSE, v |-> v]

\* The parsed bodies a backend may send with a JSON content type.
JsonBodies == {"content_good", "content_unusable"}
\* Every body a success-status response may carry.
Bodies == JsonBodies \cup {"html", "not_json", "bad_json"}

\* ApiClient.request after response.text(): HTML first, then the content
\* type, then JSON.parse.
ClassifyBody(body) ==
  CASE body = "html"     -> ApiErr("HtmlInsteadOfJson")
    [] body = "not_json" -> ApiErr("NotJsonContentType")
    [] body = "bad_json" -> ApiErr("JsonParseFailed")
    [] OTHER             -> ApiOk(body)

\* An error of request() whose message contains 'No competitive
\* intelligence found': the text comes from the backend, through the
\* message part_005 takes from the error body or through the body preview
\* apiClient.ts quotes.
NotFoundMessage == "NoCompetitiveIntelligenceFound"

\* getCompetitiveIntel.ts, catch block, for such an error:
\* `return formatNoCompetitorFound(input.competitor)`.  `input` is declared
\* with const inside the try block and is not in scope here, so evaluating
\* it throws a ReferenceError out of the handler.
CompetitorNotFound(res) == Outcome(FALSE, "ReferenceError", {}, res.v)

\* The handler from the settling of apiClient.request to its own settling.
HandlerResume(b, tool, res) ==
  LET kind == HandlerKind(b, tool)
  IN  IF kind = "fallback"
        THEN IF ~res.ok
               THEN Outcome(TRUE, "ApiErrorThenDemoResults", {}, res.v)
             ELSE IF res.v = "content_good" THEN Returned("Results", {})
             ELSE Returned("DemoResults", {})
        ELSE IF res.ok
               THEN IF res.v = "content_good" THEN Returned("Results", {})
                    ELSE Thrown("HandlerFailed")
             ELSE IF tool = "get_competitive_intel" /\ res.v = NotFoundMessage
               THEN CompetitorNotFound(res)
             ELSE Outcome(FALSE, "HandlerFailed", {}, res.v)

\* --------------------------------------------------------- response stream
\* One line written to stdout.  `line` is the number of the input line whose
\* handling wrote it; result / error are "none" when the member is missing.
\* paths, names and cause are what the text or message quotes: zod issue
\* paths, the registered tool names, an ApiClient error.
Response(line, id, result, error, code, paths, names, cause) ==
  [line |-> line, id |-> id, result |-> result, error |-> error,
   code |-> code, paths |-> paths, names |-> names, cause |-> cause]

sendResponse(o, line, id, result, paths, cause) ==
  Append(o, Response(line, id, result, "none", 0, paths, <<>>, cause))

\* id ?? undefined keeps every id but null / undefined; JSON.stringify then
\* drops the undefined member.
NullishCoalesce(id) == id
\* id || undefined would also drop 0 and "".
LogicalOr(id) == IF id \in {"num:0", "str:"} THEN IdAbsent ELSE id

ErrorId(id) == NullishCoalesce(id)

sendError(o, line, id, code, message, names, cause) ==
  Append(o, Response(line, ErrorId(id), "none", message, code, {}, names, cause))

\* A handleToolCall whose catch block only logs.
FinishToolCallSwallow(o, line, id, outcome) ==
  IF outcome.ret
    THEN sendResponse(o, line, id, outcome.text, outcome.paths, outcome.cause)
    ELSE o

\* handleToolCall after `await tool.handler(...)`: the success envelope for a
\* returned text, the catch block for a thrown error.
FinishToolCall(o, line, id, outcome) ==
  IF outcome.ret
    THEN sendResponse(o, line, id, outcome.text, outcome.paths, outcome.cause)
    ELSE sendError(o, line, id, InternalErrorCode, "ToolExecutionFailed",
                   <<>>, outcome.cause)

\* -------------------------------------------------------------- diagnostics
\* One diagnostic message: the logger method that was called ("notice" for
\* a direct write), the function that called it and what it says.
Diag(level, site, text) == [level |-> level, site |-> site, text |-> text]

\* SimpleLogger.levels.
levels == [error |-> 0, warn |-> 1, info |-> 2, debug |-> 3]

\* The values MCP_LOG_LEVEL || 'error' may have: the four level names (unset
\* and empty give "error") and a string that names no level.
LogLevels == DOMAIN levels \cup {"invalid"}

\* shouldLog: levels[level] <= levels[logLevel]; with a logLevel that names
\* no level the right-hand side is undefined and the comparison is false.
\* A direct write to stderr does not ask.
shouldLog(level, configured) ==
  \/ level = "notice"
  \/ configured \in DOMAIN levels /\ levels[level] <= levels[configured]

\* A logger whose methods print with console.log.
LoggerOnStdout == "stdout"

\* The stream SimpleLogger's methods print to: console.error.
LoggerChannel == "stderr"

\* The stream a diagnostic goes to: process.stderr.write and console.error
\* at the call site for a notice, the logger's stream otherwise.
ChannelOf(d) == IF d.level = "notice" THEN "stderr" ELSE LoggerChannel

\* The messages of `diags` that are printed to `stream` when the configured
\* level is `configured`.
Printed(diags, configured, stream) ==
  SelectSeq(diags, LAMBDA d : shouldLog(d.level, configured) /\ ChannelOf(d) = stream)

\* run() of the readline server and the top level of the SDK server.
StartupDiags(e, v) ==
  IF e = "mcp-server"
    THEN << IF v.baseUrl /\ v.apiKey
              THEN Diag("info", "run", "ApiClientConfigured")
              ELSE Diag("info", "run", "NoApiConfiguration"),
            Diag("info", "run", "Starting"),
            Diag("info", "run", "AvailableTools"),
            Diag("notice", "run", "Ready"),
            IF v.baseUrl /\ v.apiKey
              THEN Diag("notice", "run", "ConnectedToApi")
              ELSE Diag("notice", "run", "DemoMode") >>
  ELSE IF ~(v.baseUrl /\ v.apiKey)
    THEN << Diag("notice", "index", "MissingEnv"),
            Diag("notice", "index", "SetupGuide") >>
  ELSE << Diag("info", "index", "Started"), Diag("notice", "index", "Ready") >>

\* What a handler logs up to its first await.
HandlerStartDiags(b, tool, a, client) ==
  LET kind == HandlerKind(b, tool)
  IN  CASE kind = "apiOnly" ->
             IF Validate(tool, a) # {}
               THEN << Diag("error", tool, "HandlerFailed") >>
             ELSE IF tool = "discover_playbooks" /\ ~HasFilter(a)
               THEN << Diag("error", tool, "HandlerFailed") >>
             ELSE IF client = "null"
               THEN << Diag("debug", tool, "Processing"),
                       Diag("error", tool, "HandlerFailed") >>
             ELSE << Diag("debug", tool, "Processing"),
                     Diag("debug", "ApiClient", "RequestStarting") >>
        [] kind = "fallback" ->
             IF Validate(tool, a) = {} /\ client # "null"
               THEN << Diag("debug", "ApiClient", "RequestStarting") >>
               ELSE << >>
        [] OTHER -> << >>

\* What the synchronous part of the 'line' callback logs for line l.
DispatchDiags(l, b, client) ==
  IF l.v = "obj" /\ l.method = "tools/call" /\ l.params = "obj"
    THEN CASE getTool(l.name) = "undefined" -> << >>
           [] getTool(l.name) = "inherited" ->
                << Diag("info", "handleToolCall", "ExecutingTool"),
                   Diag("error", "handleToolCall", "ToolExecutionFailed") >>
           [] OTHER ->
                << Diag("info", "handleToolCall", "ExecutingTool") >>
                \o HandlerStartDiags(b, l.name, l.args, client)
    ELSE << >>

\* What handleToolCall logs after `await tool.handler(...)`.
FinishDiags(outcome) ==
  IF outcome.ret THEN << >>
  ELSE << Diag("error", "handleToolCall", "ToolExecutionFailed") >>

\* What ApiClient.request logs when it settles with res, then what the
\* handler logs when it settles with outcome.
ResumeDiags(b, tool, res, outcome) ==
  ( IF ~res.ok /\ res.v \in {"HtmlInsteadOfJson", "NotJsonContentType",
                              "JsonParseFailed"}
      THEN << Diag("error", "ApiClient", res.v) >> ELSE << >> )
  \o ( IF HandlerKind(b, tool) = "apiOnly" /\ ~outcome.ret
         THEN << Diag("error", tool, "HandlerFailed") >> ELSE << >> )

\* Node's own report of an unhandled rejection.
RejectionDiags == << Diag("notice", "node", "UnhandledRejection") >>

\* ---------------------------------------------------------------- ApiClient
\* ApiClient.request, step by step.  The repository holds two ApiClient
\* classes: src/auth/apiClient.ts, which reads the body as text and
\* classifies it, and the class of part_005, which reads error bodies for a
\* message and parses success bodies with response.json().
ClientBuilds == {"apiClient", "part_005"}

\* parseInt(process.env.MCP_TIMEOUT || '10000')
DefaultTimeout == 10000

\* config.timeout, in milliseconds.
Timeouts == {5000, DefaultTimeout}

\* A response header: headers.get(name) is null when it is not present.
\* Header values and bodies are sequences of tokens, so that trim,
\* startsWith, includes and substring can be computed on them.
Header(present, value) == [present |-> present, value |-> value]
NoHeader == Header(FALSE, << >>)

Statuses == {200, 401, 403, 429, 500}
NoStatus == 0

\* response.ok
ResponseOk(s) == s >= 200 /\ s <= 299

RetryAfters == {NoHeader, Header(TRUE, << >>), Header(TRUE, <<"45">>)}

ContentTypes ==
  { NoHeader,
    Header(TRUE, <<"application/json">>),
    Header(TRUE, <<"application/json", "; charset=utf-8">>),
    Header(TRUE, <<"text/html">>),
    Header(TRUE, <<"text/plain">>) }

\* A header read without a fallback.
HeaderOnly(h, fallback) == h.value

\* headers.get(name) || fallback: null and '' give the fallback.
OrDefault(h, fallback) ==
  IF h.present /\ h.value # << >> THEN h.value ELSE fallback

\* response.headers.get('retry-after') || '60'
RetryAfterOf(h) == OrDefault(h, <<"60">>)

\* contentType.includes('application/json')
IncludesJson(value) == "application/json" \in Range(value)

\* A check that lets every content type through.
AnyContentType(value) == TRUE

IsJsonContentType(value) == IncludesJson(value)

\* The JSON texts a backend may send, each one token: an object with a
\* content array, an object with an error member, any other value.
JsonTokens == {"json:content", "json:error", "json:other"}

\* Response bodies.  " " is white space.
Texts ==
  { << " ", "<!DOCTYPE", "html>" >>,
    << "<!doctype", "html>" >>,
    << "<html", ">" >>,
    << "json:content" >>,
    << " ", "json:other", " " >>,
    << "json:error" >>,
    << "{", "oops" >>,
    << "Not Found" >>,
    << >> }

RECURSIVE TrimStart(_)
TrimStart(t) == IF t # << >> /\ Head(t) = " " THEN TrimStart(Tail(t)) ELSE t

RECURSIVE TrimEnd(_)
TrimEnd(t) ==
  IF t # << >> /\ t[Len(t)] = " " THEN TrimEnd(SubSeq(t, 1, Len(t) - 1)) ELSE t

\* text.trim()
Trim(t) == TrimEnd(TrimStart(t))

\* text.startsWith(marker)
StartsWith(t, marker) == t # << >> /\ Head(t) = marker

\* text.trim().startsWith('<!DOCTYPE') || text.trim().startsWith('<html')
LooksLikeHtml(t) ==
  StartsWith(Trim(t), "<!DOCTYPE") \/ StartsWith(Trim(t), "<html")

\* text.substring(0, 200); the bodies of the model are shorter than that.
PreviewLength == 200
Preview(t) == SubSeq(t, 1, IF Len(t) < PreviewLength THEN Len(t) ELSE PreviewLength)

\* JSON.parse(text): white space around the value is skipped.
JsonParse(t) ==
  LET u == Trim(t)
  IN  IF Len(u) = 1 /\ u[1] \in JsonTokens
        THEN [ok |-> TRUE, value |-> u[1], message |-> "-"]
        ELSE [ok |-> FALSE, value |-> "-", message |-> "SyntaxError"]

\* A thrown value.  class is "Error" for an Error the client constructs and
\* the exception's own class when it is passed on as it came; text is the
\* message (its fixed part), arg the value the message quotes, preview the
\* body preview and detail the underlying message it quotes.
Err(class, text, arg, preview, detail) ==
  [class |-> class, text |-> text, arg |-> arg,
   preview |-> preview, detail |-> detail]
NoErr == Err("-", "-", "-", << >>, "-")

\* What request() has settled with.
NoResult      == [state |-> "none", value |-> "-", error |-> NoErr]
Resolved(v)   == [state |-> "returned", value |-> v, error |-> NoErr]
Rejected(e)   == [state |-> "thrown", value |-> "-", error |-> e]

\* `Request timeout after ${this.config.timeout}ms`
TimeoutError(r) == Err("Error", "RequestTimeoutAfter", r.timeout, << >>, "-")

\* The exceptions fetch() rejects with when the network fails.
TransportErrors ==
  { Err("TypeError", "fetch failed", "-", << >>, "ECONNREFUSED"),
    Err("TypeError", "fetch failed", "-", << >>, "ENOTFOUND") }

\* apiClient.ts: the error thrown for a non-success status.
StatusError(status, retryAfter) ==
  CASE status = 401 -> Err("Error", "AuthenticationFailed", "-", << >>, "-")
    [] status = 429 ->
         Err("Error", "RateLimitExceeded", RetryAfterOf(retryAfter), << >>, "-")
    [] OTHER -> Err("Error", "ApiRequestFailed", status, << >>, "-")

\* part_005, handleErrorResponse: the message is taken from the error body
\* when it is JSON with content[0].text or error, else it is
\* 'API request failed (status)'; the status then picks the prefix.
ErrorMessageOf(status, text) ==
  LET p == JsonParse(text)
  IN  IF p.ok /\ p.value \in {"json:content", "json:error"}
        THEN [text |-> "FromBody", arg |-> p.value]
        ELSE [text |-> "ApiRequestFailed", arg |-> status]

LegacyStatusError(status, retryAfter, text) ==
  LET m == ErrorMessageOf(status, text)
  IN  CASE status = 401 ->
             Err("Error", "AuthenticationFailed", m.arg, << >>, m.text)
        [] status = 429 ->
             Err("Error", "RateLimitExceeded", RetryAfterOf(retryAfter), << >>, m.text)
        [] status = 403 -> Err("Error", "AccessDenied", m.arg, << >>, m.text)
        [] status = 500 -> Err("Error", "ServerError", m.arg, << >>, m.text)
        [] OTHER -> Err("Error", m.text, m.arg, << >>, "-")

\* apiClient.ts after `await response.text()`: HTML first, then the content
\* type, then JSON.parse.  parsed tells whether JSON.parse was called.
ClassifyText(contentType, text) ==
  LET ct == OrDefault(contentType, << >>)
      p  == JsonParse(text)
  IN  IF LooksLikeHtml(text)
        THEN [parsed |-> FALSE,
              result |-> Rejected(Err("Error", "HtmlInsteadOfJson", "-", << >>, "-"))]
      ELSE IF ~IsJsonContentType(ct)
        THEN [parsed |-> FALSE,
              result |-> Rejected(Err("Error", "NotJsonContentType", ct,
                                      Preview(text), "-"))]
      ELSE IF ~p.ok
        THEN [parsed |-> TRUE,
              result |-> Rejected(Err("Error", "JsonParseFailed", "-",
                                      Preview(text), p.message))]
      ELSE [parsed |-> TRUE, result |-> Resolved(p.value)]

\* part_005 after `await response.json()`: the parse error is passed on as
\* it came.
LegacyJson(contentType, text) ==
  LET p == JsonParse(text)
  IN  [parsed |-> TRUE,
       result |-> IF p.ok THEN Resolved(p.value)
                  ELSE Rejected(Err("SyntaxError", "invalid json response body",
                                    "-", << >>, p.message))]

\* config.apiKey: a bare key, and a key that already carries a scheme.
Credentials == { <<"tok">>, <<"Bearer ", "tok">>, <<"MCP-Key ", "tok">> }

\* The Authorization header of the POST.  apiClient.ts sends a key that
\* starts with 'Bearer ' or 'MCP-Key ' as it is; part_005 always prefixes.
AuthorizationOf(variant, apiKey) ==
  IF variant = "apiClient"
       /\ (StartsWith(apiKey, "Bearer ") \/ StartsWith(apiKey, "MCP-Key "))
    THEN apiKey
    ELSE <<"Bearer ">> \o apiKey

\* config.baseUrl, without and with the path of the MCP API (the documented
\* configuration is https://solutions-master.replit.app/api/mcp).
BaseUrls == { <<"https://host">>, <<"https://host", "/api/mcp">> }

\* The code that calls request(): a tool handler, named by its tool, or
\* testConnection.
Callers == Range(getToolNames) \cup {"testConnection"}

\* The endpoint each caller passes.  The handlers of the API-only files pass
\* '/<tool>'; the find_sales_content handler with the demo fallback passes
\* '/api/mcp/find_sales_content'; testConnection passes '/health'
\* (apiClient.ts) or '/find_sales_content' (part_005).
EndpointOf(b, variant, caller) ==
  IF caller = "testConnection"
    THEN IF variant = "apiClient" THEN <<"/health">> ELSE <<"/find_sales_content">>
  ELSE IF HandlerKind(b, caller) = "fallback"
    THEN <<"/api/mcp", "/" \o caller>>
  ELSE <<"/" \o caller>>

Endpoints ==
  { EndpointOf(b, v, c) : b \in Builds, v \in ClientBuilds, c \in Callers }

\* const url: `${baseUrl}${endpoint}` in apiClient.ts,
\* `${baseUrl}/api/mcp${endpoint}` in part_005.
UrlOf(variant, baseUrl, endpoint) ==
  IF variant = "apiClient" THEN baseUrl \o endpoint
  ELSE baseUrl \o <<"/api/mcp">> \o endpoint

\* error instanceof Error ? error.message : String(error)
MessageOf(e) == [text |-> e.text, arg |-> e.arg, detail |-> e.detail]

\* What testConnection has settled with.
NoConn ==
  [state |-> "none", connected |-> FALSE, serverInfo |-> << >>,
   error |-> MessageOf(NoErr)]

\* One call of request(): its configuration and arguments, where it is
\* (pc), whether the timeout timer is armed, whether controller.abort() ran,
\* the POSTs it has issued, what the response carried, what the call
\* settled with and what testConnection made of that.
Fresh(variant, timeout) ==
  [variant |-> variant, timeout |-> timeout, pc |-> "idle",
   timer |-> FALSE, aborted |-> FALSE,
   status |-> NoStatus, retryAfter |-> NoHeader,
   contentType |-> NoHeader,
   body |-> << >>, read |-> FALSE, parsed |-> FALSE, result |-> NoResult,
   caller |-> "-", baseUrl |-> << >>, apiKey |-> << >>, endpoint |-> << >>,
   sent |-> << >>, conn |-> NoConn]

\* request(endpoint, data) called by `caller` on a client configured with
\* baseUrl and apiKey.
Call(variant, timeout, baseUrl, apiKey, caller, endpoint) ==
  [Fresh(variant, timeout) EXCEPT !.baseUrl = baseUrl, !.apiKey = apiKey,
                                  !.caller = caller, !.endpoint = endpoint]

\* The POST fetch() is called with.
Post(r) ==
  [url |-> UrlOf(r.variant, r.baseUrl, r.endpoint),
   authorization |-> AuthorizationOf(r.variant, r.apiKey)]

\* A client that issues every POST twice.
SendTwice(r, post) == [r EXCEPT !.sent = Append(Append(@, post), post)]

\* fetch(url, {method: 'POST', headers, body, signal}), once.
Send(r, post) == [r EXCEPT !.sent = Append(@, post)]

\* A testConnection without its try / catch.
ConnectionOrThrow(r) ==
  IF r.result.state = "returned"
    THEN [state |-> "returned", connected |-> TRUE,
          serverInfo |-> <<r.baseUrl, "1.0.0">>, error |-> MessageOf(NoErr)]
    ELSE [state |-> "thrown", connected |-> FALSE, serverInfo |-> << >>,
          error |-> MessageOf(r.result.error)]

\* testConnection after `await this.request(...)`: {connected: true,
\* serverInfo: {baseUrl, version}} or, in the catch block,
\* {connected: false, error: message}.
ConnectionResult(r) ==
  IF r.result.state = "returned"
    THEN [state |-> "returned", connected |-> TRUE,
          serverInfo |-> <<r.baseUrl, "1.0.0">>, error |-> MessageOf(NoErr)]
    ELSE [state |-> "returned", connected |-> FALSE, serverInfo |-> << >>,
          error |-> MessageOf(r.result.error)]

\* A request that leaves its timer armed.
KeepTimer(r) == r

\* clearTimeout(timeoutId)
ClearTimeout(r) == [r EXCEPT !.timer = FALSE]

\* What ApiClient logs when request() is called, and when it fails.
ClientStartDiags == << Diag("debug", "ApiClient", "RequestStarting") >>

\* part_005 logs in testConnection: before the request, and after it.
TestStartDiags(r) ==
  IF r.caller = "testConnection" /\ r.variant = "part_005"
    THEN << Diag("debug", "ApiClient", "TestingConnection") >> ELSE << >>

TestEndDiags(r) ==
  IF r.variant # "part_005" THEN << >>
  ELSE IF r.result.state = "returned"
    THEN << Diag("debug", "ApiClient", "ConnectionTestSuccessful") >>
  ELSE << Diag("error", "ApiClient", "ConnectionTestFailed") >>

\* part_005 logs the response at debug level; apiClient.ts does not.
ClientResponseDiags(variant) ==
  IF variant = "part_005"
    THEN << Diag("debug", "ApiClient", "ResponseReceived") >> ELSE << >>

ClientFailureDiags(variant, e) ==
  IF variant = "apiClient"
    THEN IF e.text \in {"HtmlInsteadOfJson", "NotJsonContentType", "JsonParseFailed"}
           THEN << Diag("error", "ApiClient", e.text) >> ELSE << >>
  ELSE IF e.text = "RequestTimeoutAfter"
    THEN << Diag("error", "ApiClient", "RequestTimeout") >>
  ELSE << Diag("error", "ApiClient", "RequestFailed") >>

\* -------------------------------------------------------------------- state
VARIABLES
  entry,      \* which entry point of the repository was started
  env,        \* process.env: whether API_BASE_URL and API_KEY are set
  logLevel,   \* SimpleLogger.logLevel, read from MCP_LOG_LEVEL
  err,        \* the lines written to stderr, in order
  req,        \* the call of ApiClient.request that ClientSpec follows
  status,     \* "running", "exited" (process.exit(0)), "crashed" (uncaught
              \*   rejection), "failed" (process.exit(1) at startup) or
              \*   "sdk" (the SDK transport has taken over the stream)
  closed,     \* readline's interface has been closed
  phase,      \* "loop": between event-loop callbacks; "chunk": inside the
              \*   'data' callback that emits the lines of one chunk
  build,      \* which family of tool files is registered
  apiClient,  \* "client" when run() constructed the ApiClient, else "null"
  lines,      \* the input lines read so far, in order
  out,        \* the lines written to stdout, in order
  task,       \* per input line: where its tool call is waiting
  microq,     \* settled tool calls whose continuation is still queued
  unhandled,  \* a rejected handleMessage promise nobody handles is pending
  invoked,    \* the input lines whose call reached tool.handler
  apiCalls    \* the input lines whose handler issued apiClient.request

vars == <<entry, env, logLevel, err, req, status, closed, phase, build, apiClient, lines, out,
          task, microq, unhandled, invoked, apiCalls>>

LineNos == 1..MaxLines

Idle == [pc |-> "none", outcome |-> NoOutcome]

\* run(): the client exists exactly when API_BASE_URL and API_KEY are set.
ClientFor(baseUrlSet, apiKeySet) ==
  IF baseUrlSet /\ apiKeySet THEN "client" ELSE "null"

\* The two stdio entry points: the readline server, whose run() starts with
\* or without an API client, and the SDK server, whose environment
\* validation ends the process with code 1 when a variable is missing and
\* which otherwise constructs the client and hands stdin / stdout to the
\* SDK's transport.
Entries == {"mcp-server", "index"}

Envs == [baseUrl : BOOLEAN, apiKey : BOOLEAN]

Startup(e, v) ==
  IF e = "mcp-server"
    THEN [status |-> "running", client |-> ClientFor(v.baseUrl, v.apiKey)]
  ELSE IF ~(v.baseUrl /\ v.apiKey)
    THEN [status |-> "failed", client |-> "null"]
  ELSE [status |-> "sdk", client |-> "client"]

\* The process after startup, with MCP_LOG_LEVEL one of `configured` and
\* the ApiClient class and timeout one of `clients`.
InitWith(configured, clients) ==
  /\ entry \in Entries
  /\ env \in Envs
  /\ logLevel \in configured
  /\ req \in clients
  /\ err = Printed(StartupDiags(entry, env), logLevel, "stderr")
  /\ out = Printed(StartupDiags(entry, env), logLevel, "stdout")
  /\ status = Startup(entry, env).status
  /\ apiClient = Startup(entry, env).client
  /\ closed = FALSE
  /\ phase = "loop"
  /\ build \in Builds
  /\ lines = <<>>
  /\ task = [i \in LineNos |-> Idle]
  /\ microq = <<>>
  /\ unhandled = FALSE
  /\ invoked = {}
  /\ apiCalls = {}

\* MCP_LOG_LEVEL and MCP_TIMEOUT unset.
Init == InitWith({"error"}, {Fresh("apiClient", DefaultTimeout)})

\* ------------------------------------------------------------ handleMessage
\* What the synchronous part of one 'line' callback does for line l, read as
\* line number n: the stdout lines written, whether the call now waits
\* (next), and whether handleMessage's promise was rejected with nobody to
\* catch it.
Step(o, next, outcome, rejected, called) ==
  [out |-> o, next |-> next, outcome |-> outcome,
   rejected |-> rejected, called |-> called]

Wrote(o) == Step(o, "none", NoOutcome, FALSE, FALSE)

handleInitialize(o, n, l) ==
  Wrote(sendResponse(o, n, l.id, "initialize", {}, "-"))

\* A registered tool object and the descriptor handleListTools maps it to.
ToolFields       == {"name", "description", "inputSchema", "handler"}
DescriptorFields == {"name", "description", "inputSchema"}

\* A listing that hands out the tool objects themselves.
ListWholeTools ==
  [k \in 1..Len(getToolNames) |-> [name |-> getToolNames[k], fields |-> ToolFields]]

\* Object.values(tools).map(tool => ({name, description, inputSchema})).
ListTools ==
  [k \in 1..Len(getToolNames) |->
     [name |-> getToolNames[k], fields |-> ToolFields \cap DescriptorFields]]

handleListTools(o, n, l) ==
  Wrote(Append(o, [Response(n, l.id, "tools", "none", 0, {}, <<>>, "-")
                     EXCEPT !.names = ListTools]))

\* The error the server sends for a name the registry does not hold.
ToolNotFound(o, n, l) ==
  sendError(o, n, l.id, ToolNotFoundCode, "ToolNotFound", getToolNames, "-")

handleToolCall(o, n, l, b, client) ==
  IF l.params = "missing"
    \* destructuring undefined throws; handleMessage's catch answers
    THEN Wrote(sendError(o, n, l.id, InternalErrorCode, "InternalError", <<>>, "-"))
  ELSE CASE getTool(l.name) = "undefined" -> Wrote(ToolNotFound(o, n, l))
         [] getTool(l.name) = "inherited" ->
              \* tool.handler is not a function: the inner catch answers
              Wrote(sendError(o, n, l.id, InternalErrorCode,
                              "ToolExecutionFailed", <<>>, "-"))
         [] OTHER ->
              LET h == HandlerStart(b, l.name, l.args, client)
              IN  Step(o, h.next, h.outcome, FALSE, TRUE)

\* A default branch that answers with the code of the tool lookup.
MethodNotFoundAsInvalidParams(o, n, l) ==
  Wrote(sendError(o, n, l.id, ToolNotFoundCode, "MethodNotFound", <<>>, "-"))

MethodNotFound(o, n, l) ==
  Wrote(sendError(o, n, l.id, MethodNotFoundCode, "MethodNotFound", <<>>, "-"))

handleMessage(o, n, l, b, client) ==
  CASE l.v = "null" ->
         \* message.method throws, and so does message.id in the catch block
         Step(o, "none", NoOutcome, TRUE, FALSE)
    [] l.v = "prim" -> MethodNotFound(o, n, l)
    [] l.method = "initialize" -> handleInitialize(o, n, l)
    [] l.method = "tools/list" -> handleListTools(o, n, l)
    [] l.method = "tools/call" -> handleToolCall(o, n, l, b, client)
    [] OTHER -> MethodNotFound(o, n, l)

\* The 'line' listener: JSON.parse, then handleMessage without awaiting it.
\* A 'line' listener that reports a parse failure as an internal error.
ParseErrorAsInternal(o, n) ==
  Wrote(sendError(o, n, IdAbsent, InternalErrorCode, "ParseError", <<>>, "-"))

ParseError(o, n) ==
  Wrote(sendError(o, n, IdAbsent, ParseErrorCode, "ParseError", <<>>, "-"))

OnLine(o, n, l, b, client) ==
  IF l.v = "bad" THEN ParseError(o, n) ELSE handleMessage(o, n, l, b, client)

\* The state after the 'line' callback for l has returned.
Dispatch(l) ==
  LET n == Len(lines) + 1
      g == DispatchDiags(l, build, apiClient)
      d == OnLine(out \o Printed(g, logLevel, "stdout"), n, l, build, apiClient)
  IN  /\ lines' = Append(lines, l)
      /\ err' = err \o Printed(g, logLevel, "stderr")
      /\ out' = d.out
      /\ task' = IF d.next = "none" THEN task
                 ELSE [task EXCEPT ![n] = [pc |-> d.next, outcome |-> d.outcome]]
      /\ microq' = IF d.next = "micro" THEN Append(microq, n) ELSE microq
      /\ unhandled' = (unhandled \/ d.rejected)
      /\ invoked' = IF d.called THEN invoked \cup {n} ELSE invoked
      /\ apiCalls' = IF d.next = "fetch" THEN apiCalls \cup {n} ELSE apiCalls

\* The event loop may start a new callback: nothing is queued before it.
LoopIdle == status = "running" /\ phase = "loop" /\ microq = <<>> /\ ~unhandled

\* ------------------------------------------------------------------ actions
\* readline emits one line of a 'data' chunk; the lines of one chunk are
\* emitted back to back, before any queued continuation runs.
ReadLine(l) ==
  /\ status = "running" /\ ~closed
  /\ Len(lines) < MaxLines
  /\ LoopIdle \/ phase = "chunk"
  /\ Dispatch(l)
  /\ phase' = "chunk"
  /\ UNCHANGED <<entry, env, logLevel, req, status, closed, build, apiClient>>

\* The 'data' callback returns to the event loop.
EndChunk ==
  /\ status = "running"
  /\ phase = "chunk"
  /\ phase' = "loop"
  /\ UNCHANGED <<entry, env, logLevel, req, err, status, closed, build, apiClient, lines, out, task, microq,
                 unhandled, invoked, apiCalls>>

\* The continuation of handleToolCall after `await tool.handler(...)` for a
\* handler that settled without waiting for the network.
RunMicrotask ==
  /\ status = "running"
  /\ phase = "loop"
  /\ microq # <<>>
  /\ LET n == Head(microq)
         g == FinishDiags(task[n].outcome)
     IN  /\ out' = FinishToolCall(out \o Printed(g, logLevel, "stdout"),
                                  n, lines[n].id, task[n].outcome)
         /\ err' = err \o Printed(g, logLevel, "stderr")
         /\ task' = [task EXCEPT ![n] = [pc |-> "done", outcome |-> @.outcome]]
  /\ microq' = Tail(microq)
  /\ UNCHANGED <<entry, env, logLevel, req, status, closed, phase, build, apiClient, lines, unhandled,
                 invoked, apiCalls>>

\* Node reports the unhandled rejection once the queue has drained: by
\* default the process dies, under --unhandled-rejections=warn it goes on.
UnhandledRejectionThrow ==
  /\ status = "running" /\ phase = "loop" /\ microq = <<>> /\ unhandled
  /\ status' = "crashed"
  /\ unhandled' = FALSE
  /\ err' = err \o RejectionDiags
  /\ UNCHANGED <<entry, env, logLevel, req, closed, phase, build, apiClient, lines, out, task, microq,
                 invoked, apiCalls>>

UnhandledRejectionWarn ==
  /\ status = "running" /\ phase = "loop" /\ microq = <<>> /\ unhandled
  /\ unhandled' = FALSE
  /\ err' = err \o RejectionDiags
  /\ UNCHANGED <<entry, env, logLevel, req, status, closed, phase, build, apiClient, lines, out, task, microq,
                 invoked, apiCalls>>

\* ApiClient.request settles for line n with res; the handler and
\* handleToolCall run to their end in the same turn of the loop.
SettleRequest(n, res) ==
  LET outcome == HandlerResume(build, lines[n].name, res)
      g == ResumeDiags(build, lines[n].name, res, outcome) \o FinishDiags(outcome)
  IN  /\ out' = FinishToolCall(out \o Printed(g, logLevel, "stdout"),
                               n, lines[n].id, outcome)
      /\ err' = err \o Printed(g, logLevel, "stderr")
      /\ task' = [task EXCEPT ![n] = [pc |-> "done", outcome |-> outcome]]

\* fetch() resolves with the response headers: the timer is cleared, a
\* non-success status throws, otherwise the body is awaited.
FetchResolves(n, ok) ==
  /\ LoopIdle
  /\ task[n].pc = "fetch"
  /\ IF ok
       THEN /\ task' = [task EXCEPT ![n] = [pc |-> "body", outcome |-> NoOutcome]]
            /\ out' = out /\ err' = err
       ELSE SettleRequest(n, ApiErr("HttpStatus"))
  /\ UNCHANGED <<entry, env, logLevel, req, status, closed, phase, build, apiClient, lines, microq, unhandled,
                 invoked, apiCalls>>

\* fetch() rejects with a transport error, which request rethrows.
FetchRejects(n) ==
  /\ LoopIdle
  /\ task[n].pc = "fetch"
  /\ SettleRequest(n, ApiErr("Network"))
  /\ UNCHANGED <<entry, env, logLevel, req, status, closed, phase, build, apiClient, lines, microq, unhandled,
                 invoked, apiCalls>>

\* The timeout timer fires while fetch() is pending: abort, AbortError,
\* 'Request timeout after Nms'.
TimerFires(n) ==
  /\ LoopIdle
  /\ task[n].pc = "fetch"
  /\ SettleRequest(n, ApiErr("Timeout"))
  /\ UNCHANGED <<entry, env, logLevel, req, status, closed, phase, build, apiClient, lines, microq, unhandled,
                 invoked, apiCalls>>

\* response.text() resolves; the timer is no longer armed at this point.
BodyArrives(n, body) ==
  /\ LoopIdle
  /\ task[n].pc = "body"
  /\ SettleRequest(n, ClassifyBody(body))
  /\ UNCHANGED <<entry, env, logLevel, req, status, closed, phase, build, apiClient, lines, microq, unhandled,
                 invoked, apiCalls>>

\* A readline interface that closes without ending the process.
CloseOnly == closed' = TRUE /\ status' = status

\* rl.close() marks the interface closed and emits 'close', whose listener
\* calls process.exit(0).
Exit == closed' = TRUE /\ status' = "exited"

\* stdin ends with nothing buffered: readline closes.
InputEnd ==
  /\ LoopIdle /\ ~closed
  /\ Exit
  /\ UNCHANGED <<entry, env, logLevel, req, err, phase, build, apiClient, lines, out, task, microq,
                 unhandled, invoked, apiCalls>>

\* stdin ends after an unterminated last line: readline emits the line and
\* closes in the same callback.
InputEndWithLine(l) ==
  /\ LoopIdle /\ ~closed
  /\ Len(lines) < MaxLines
  /\ Dispatch(l)
  /\ Exit
  /\ UNCHANGED <<entry, env, logLevel, req, phase, build, apiClient>>

\* SIGINT / SIGTERM -> rl.close() -> 'close'.
Signal ==
  /\ LoopIdle
  /\ Exit
  /\ UNCHANGED <<entry, env, logLevel, req, err, phase, build, apiClient, lines, out, task, microq,
                 unhandled, invoked, apiCalls>>

\* The steps of the process when its input carries lines of the set S.
NextOver(S) ==
  \/ \E l \in S : ReadLine(l)
  \/ EndChunk
  \/ RunMicrotask
  \/ UnhandledRejectionThrow
  \/ UnhandledRejectionWarn
  \/ \E n \in LineNos, ok \in BOOLEAN : FetchResolves(n, ok)
  \/ \E n \in LineNos : FetchRejects(n)
  \/ \E n \in LineNos : TimerFires(n)
  \/ \E n \in LineNos, body \in Bodies : BodyArrives(n, body)
  \/ InputEnd
  \/ \E l \in S : InputEndWithLine(l)
  \/ Signal

Next == NextOver(Lines)

Spec == Init /\ [][Next]_vars

NextCalls == NextOver(CallLines)

\* The server fed with tool calls of every argument shape.
CallSpec == Init /\ [][NextCalls]_vars

\* The server at every value of MCP_LOG_LEVEL.
LogInit == InitWith(LogLevels, {Fresh("apiClient", DefaultTimeout)})

NextLog == NextOver(LogLines)

LogSpec == LogInit /\ [][NextLog]_vars

\* The lines that reach the get_competitive_intel handler, and one that
\* Node rejects.
IntelLines ==
  { Line("null", "missing", IdAbsent, "-", "-", "-"),
    Line("obj", "tools/call", "num:7", "obj", "get_competitive_intel", "main_ok"),
    Line("obj", "tools/call", "str:", "obj", "get_competitive_intel", "empty_obj") }

\* request() throws an error whose message carries the backend's 'No
\* competitive intelligence found ...' text.
NotFoundReported(n) ==
  /\ LoopIdle
  /\ task[n].pc \in {"fetch", "body"}
  /\ SettleRequest(n, ApiErr(NotFoundMessage))
  /\ UNCHANGED <<entry, env, logLevel, req, status, closed, phase, build, apiClient, lines, microq, unhandled,
                 invoked, apiCalls>>

NextIntel ==
  \/ NextOver(IntelLines)
  \/ \E n \in LineNos : NotFoundReported(n)

\* The server fed with get_competitive_intel calls, against a backend that
\* may report that it knows nothing about the competitor.
IntelSpec == Init /\ [][NextIntel]_vars

\* ------------------------------------------------------ ApiClient.request
server == <<entry, env, logLevel, status, closed, phase, build, apiClient,
            lines, out, task, microq, unhandled, invoked, apiCalls>>

\* The call settles: what the class logs on a failure, then the result.
Settle(r, parsed, result) ==
  /\ req' = [r EXCEPT !.pc = "done", !.parsed = parsed, !.result = result]
  /\ err' = err \o Printed(IF result.state = "thrown"
                              THEN ClientFailureDiags(r.variant, result.error)
                              ELSE << >>,
                            logLevel, "stderr")

\* request(endpoint, data): arm the timer and call fetch with the signal.
Request ==
  /\ req.pc = "idle"
  /\ req' = Send([req EXCEPT !.pc = "fetch", !.timer = TRUE], Post(req))
  /\ err' = err \o Printed(TestStartDiags(req) \o ClientStartDiags, logLevel, "stderr")
  /\ UNCHANGED server

\* fetch() resolves with status and headers: the timer is cleared; a
\* non-success status throws at once (apiClient.ts) or after the error body
\* was read (part_005); a success status goes on to read the body.
OnResponse(st, retryAfter, contentType) ==
  /\ req.pc = "fetch"
  /\ LET r == [ClearTimeout(req) EXCEPT !.status = st,
                                       !.retryAfter = retryAfter,
                                       !.contentType = contentType]
         received == err \o Printed(ClientResponseDiags(r.variant), logLevel, "stderr")
     IN  IF ResponseOk(st)
           THEN req' = [r EXCEPT !.pc = "body"] /\ err' = received
         ELSE IF r.variant = "apiClient"
           THEN Settle(r, FALSE, Rejected(StatusError(st, retryAfter)))
         ELSE req' = [r EXCEPT !.pc = "errbody"] /\ err' = received
  /\ UNCHANGED server

\* fetch() rejects with a transport exception: the catch block clears the
\* timer and throws the exception on.
OnTransportError(e) ==
  /\ req.pc = "fetch"
  /\ Settle(ClearTimeout(req), FALSE, Rejected(e))
  /\ UNCHANGED server

\* The timer fires while it is armed: controller.abort() makes the pending
\* fetch or body read reject with an AbortError, which the catch block
\* turns into the timeout error.
OnTimeout ==
  /\ req.timer
  /\ req.pc \in {"fetch", "body", "errbody"}
  /\ LET r == [req EXCEPT !.timer = FALSE, !.aborted = TRUE]
     IN  Settle(r, r.parsed, Rejected(TimeoutError(r)))
  /\ UNCHANGED server

\* The body of a success response has arrived.
OnBody(text) ==
  /\ req.pc = "body"
  /\ LET r == [req EXCEPT !.body = text, !.read = TRUE]
         c == IF r.variant = "apiClient"
                THEN ClassifyText(r.contentType, text)
                ELSE LegacyJson(r.contentType, text)
     IN  Settle(r, c.parsed, c.result)
  /\ UNCHANGED server

\* part_005: the body of an error response has arrived.
OnErrorBody(text) ==
  /\ req.pc = "errbody"
  /\ LET r == [req EXCEPT !.body = text, !.read = TRUE]
     IN  Settle(r, TRUE, Rejected(LegacyStatusError(r.status, r.retryAfter, text)))
  /\ UNCHANGED server

\* testConnection resumes after its request has settled.
TestConnectionSettles ==
  /\ req.caller = "testConnection"
  /\ req.pc = "done"
  /\ req.conn.state = "none"
  /\ req' = [req EXCEPT !.conn = ConnectionResult(req)]
  /\ err' = err \o Printed(TestEndDiags(req), logLevel, "stderr")
  /\ UNCHANGED server

NextClient ==
  \/ Request
  \/ TestConnectionSettles
  \/ \E s \in Statuses, ra \in RetryAfters, ct \in ContentTypes : OnResponse(s, ra, ct)
  \/ \E e \in TransportErrors : OnTransportError(e)
  \/ OnTimeout
  \/ \E t \in Texts : OnBody(t)
  \/ \E t \in Texts : OnErrorBody(t)

\* An ApiClient of either class, with either timeout, base URL and kind of
\* credential, in a process started with both variables set, called by one
\* of the callers the registered tool files hold or by testConnection.
ClientInit ==
  /\ InitWith({"error", "debug"},
              {Call(v, t, u, k, c, e) :
                 v \in ClientBuilds, t \in Timeouts, u \in BaseUrls,
                 k \in Credentials, c \in Callers, e \in Endpoints})
  /\ entry = "mcp-server" /\ env.baseUrl /\ env.apiKey
  /\ req.caller = "testConnection" \/ HandlerKind(build, req.caller) # "demoOnly"
  /\ req.endpoint = EndpointOf(build, req.variant, req.caller)

ClientSpec == ClientInit /\ [][NextClient]_vars

\* ClientSpec with the timer Node runs: an armed timer fires unless it is
\* cleared first.
FairClientSpec == ClientSpec /\ WF_vars(OnTimeout)

\* Spec with the scheduling Node guarantees: a callback returns, queued
\* continuations and rejection reports run, an armed timer fires.
FairSpec ==
  /\ Spec
  /\ WF_vars(EndChunk)
  /\ WF_vars(RunMicrotask)
  /\ WF_vars(UnhandledRejectionThrow \/ UnhandledRejectionWarn)
  /\ \A n \in LineNos : WF_vars(TimerFires(n))

\* ------------------------------------------------------------------ claims
\* The stdout lines written while handling input line n.
RespondedBy(n) == {k \in 1..Len(out) : out[k].line = n}
Responded(n)   == RespondedBy(n) # {}

\* Input line n is a request (a JSON object) that carries an id.
RequestWithId(n) ==
  n <= Len(lines) /\ lines[n].v = "obj" /\ lines[n].id \in Ids

\* Input line n is a tools/call naming a registered tool.
RegisteredCall(n) ==
  /\ n <= Len(lines)
  /\ lines[n].v = "obj" /\ lines[n].method = "tools/call"
  /\ lines[n].params = "obj" /\ lines[n].name \in Range(getToolNames)

\* The tool calls whose handler has started and whose response is not written.
InFlight == {n \in LineNos : task[n].pc \in {"micro", "fetch", "body"}}

\* C1: a request with an id never gets more than one response; the response
\* carries the request's id (0 and "" included) and exactly one of result
\* and error.
C1_OneWellFormedResponse ==
  \A n \in LineNos :
    RequestWithId(n) =>
      /\ Cardinality(RespondedBy(n)) <= 1
      /\ \A k \in RespondedBy(n) :
           /\ out[k].id = lines[n].id
           /\ (out[k].result = "none") # (out[k].error = "none")

\* C1 witness: an error response echoing id 0 and a tool result echoing "".
C1_Witness ==
  /\ Len(out) = 2
  /\ out[1].id = "num:0" /\ out[1].error = "MethodNotFound"
  /\ out[2].id = "str:" /\ out[2].result = "Results"

C3_ResponsesInReadOrder ==
  \A a, b \in 1..Len(out) : a < b => out[a].line <= out[b].line

\* C4: at most one tool call is being processed at any time.
C4_OneAtATime == Cardinality(InFlight) <= 1

\* C5: a request without an id never causes a line on stdout.
C5_NotificationsSilent ==
  \A k \in 1..Len(out) :
    lines[out[k].line].v = "obj" => lines[out[k].line].id # IdAbsent

\* C6: reading a line that is not JSON writes exactly one -32700 error with
\* no id, changes nothing else the server keeps, and leaves it running
\* (unless the line came with the end of the input).
C6_ParseErrorOnly ==
  [][ (Len(lines') = Len(lines) + 1 /\ lines'[Len(lines')].v = "bad") =>
        /\ out' = Append(out,
                    Response(Len(lines'), IdAbsent, "none", "ParseError",
                             ParseErrorCode, {}, <<>>, "-"))
        /\ UNCHANGED <<task, microq, unhandled, invoked, apiCalls,
                       build, apiClient>>
        /\ status' # "crashed"
        /\ (phase' = "chunk" => status' = "running") ]_vars

\* C6 witness: the line after a bad line is answered as usual.
C6_Witness ==
  /\ Len(lines) = 2 /\ lines[1].v = "bad"
  /\ Len(out) = 2 /\ out[1].code = ParseErrorCode
  /\ out[2].result = "tools" /\ out[2].id = "num:7"
  /\ status = "running"

\* C7: no line leaves an exception unhandled or ends the process.
C7_NoUnhandledException == status # "crashed" /\ ~unhandled

\* C8: a tools/call naming an unregistered tool is answered with -32601 and
\* the list of registered names, and reaches no handler.
C8_UnknownToolMethodNotFound ==
  \A n \in 1..Len(lines) :
    ( /\ lines[n].v = "obj" /\ lines[n].method = "tools/call"
      /\ lines[n].params = "obj" /\ lines[n].name \notin Range(getToolNames) )
    => /\ n \notin invoked
       /\ \E k \in RespondedBy(n) :
            out[k].code = MethodNotFoundCode /\ out[k].names = getToolNames

\* C9: a parsed request whose method is none of initialize, tools/list and
\* tools/call is answered once, with -32601 and the request's id, and
\* reaches no handler.
C9_UnknownMethod ==
  \A n \in 1..Len(lines) :
    ( /\ lines[n].v \in {"obj", "prim"}
      /\ lines[n].method \notin {"initialize", "tools/list", "tools/call"} )
    => /\ n \notin invoked
       /\ Cardinality(RespondedBy(n)) = 1
       /\ \A k \in RespondedBy(n) :
            /\ out[k].code = MethodNotFoundCode
            /\ out[k].error = "MethodNotFound" /\ out[k].result = "none"
            /\ out[k].id = lines[n].id

\* C9 witness: an unknown method with id 0 answered after an earlier request.
C9_Witness ==
  /\ Len(lines) = 2 /\ lines[2].method = "other" /\ lines[2].id = "num:0"
  /\ \E k \in RespondedBy(2) : out[k].id = "num:0"

\* The arguments of input line n fail the named tool's schema: they are
\* absent, the principal field has the wrong type, a required principal
\* field is missing or out of range (discover_playbooks requires none and
\* bounds none), or find_sales_content's limit is out of range.
FailsValidation(n) ==
  /\ RegisteredCall(n)
  /\ \/ lines[n].args \in {"absent", "main_wrong_type"}
     \/ /\ lines[n].args \in {"empty_obj", "main_out_of_range"}
        /\ lines[n].name # "discover_playbooks"
     \/ /\ lines[n].args = "limit_out_of_range"
        /\ lines[n].name = "find_sales_content"

\* The fields a tool's schema constrains.
SchemaFields(tool) ==
  IF tool = "find_sales_content" THEN {MainField(tool), "limit"}
  ELSE {MainField(tool)}

\* A validation answer for line n: a result, not an error, carrying the
\* Invalid Input text, with the API client never called.
ValidationAnswer(n) ==
  /\ n \notin apiCalls
  /\ task[n].pc \in {"micro", "done"}
  /\ task[n].outcome.ret /\ task[n].outcome.text = "InvalidInput"
  /\ \A k \in RespondedBy(n) :
       /\ out[k].result = "InvalidInput" /\ out[k].error = "none"
       /\ out[k].paths = task[n].outcome.paths

\* The Invalid Input text names a field of the tool's schema.
NamesField(n) ==
  LET paths == task[n].outcome.paths
  IN  paths # {} /\ paths \subseteq SchemaFields(lines[n].name)

\* C10 as stated: every validation failure, absent arguments included, is
\* answered with an Invalid Input result that names the violated field.
C10_InvalidInputNamesField ==
  \A n \in LineNos : FailsValidation(n) => ValidationAnswer(n) /\ NamesField(n)

\* C10 amended: every validation failure is answered with an Invalid Input
\* result and no API call; the text names the violated field, except that
\* for absent arguments its only issue has the empty path.
C10_InvalidInputResult ==
  \A n \in LineNos :
    FailsValidation(n) =>
      /\ ValidationAnswer(n)
      /\ IF lines[n].args = "absent"
           THEN task[n].outcome.paths = {RootPath}
           ELSE NamesField(n)

\* C10 witness: with an API client configured, an out-of-range limit is
\* answered with the Invalid Input text naming limit.
C10_Witness ==
  /\ apiClient = "client"
  /\ \E k \in 1..Len(out) :
       /\ out[k].result = "InvalidInput" /\ out[k].paths = {"limit"}
       /\ lines[out[k].line].args = "limit_out_of_range"

\* C12: once readline has closed (end of input, SIGINT or SIGTERM) the
\* process has exited with code 0 and nothing more is written to stdout,
\* whatever handler was still waiting.
C12_ClosingIsTerminal ==
  /\ [](closed => status = "exited")
  /\ [][closed => (out' = out /\ status' = status)]_vars

\* C12 witness: the process has exited on close while a tool call was
\* waiting for the backend and another had been answered.
C12_Witness ==
  /\ closed /\ status = "exited"
  /\ \E n \in LineNos : task[n].pc \in {"fetch", "body"}
  /\ Len(out) = 1

\* The members of a line sendResponse / sendError print.
ResponseFields ==
  {"line", "id", "result", "error", "code", "paths", "names", "cause"}

\* x is one complete JSON-RPC response: a result or an error, not both.
IsResponseLine(x) ==
  DOMAIN x = ResponseFields /\ ((x.result = "none") # (x.error = "none"))

\* x is a diagnostic message.
IsDiag(x) == DOMAIN x = {"level", "site", "text"}

\* C13: at every log level, stdout holds complete JSON-RPC response lines
\* and nothing else; the diagnostics that are printed (logger messages the
\* level lets through, the startup notices, API client logs) are on stderr.
C13_StdoutOnlyResponses ==
  /\ \A k \in 1..Len(out) : IsResponseLine(out[k])
  /\ \A k \in 1..Len(err) : IsDiag(err[k])
  /\ entry = "mcp-server" => Diag("notice", "run", "Ready") \in Range(err)
  /\ (invoked # {} /\ logLevel \in {"info", "debug"}) =>
       Diag("info", "handleToolCall", "ExecutingTool") \in Range(err)
  /\ (apiCalls # {} /\ logLevel = "debug") =>
       Diag("debug", "ApiClient", "RequestStarting") \in Range(err)

\* C13 witness: at level debug a tool call was answered on stdout after the
\* API client and the handler logged an error on stderr.
C13_Witness ==
  /\ logLevel = "debug"
  /\ \E k \in 1..Len(out) : out[k].code = InternalErrorCode
  /\ Diag("error", "ApiClient", "HtmlInsteadOfJson") \in Range(err)
  /\ Diag("debug", "ApiClient", "RequestStarting") \in Range(err)
  /\ Diag("info", "run", "Starting") \in Range(err)

\* C14: the API client exists exactly when both variables are set; the
\* server starts (it does not exit) when one is missing; the handlers get
\* the startup client, which never changes.
C14_ClientIffConfigured ==
  /\ []( /\ (apiClient = "client") <=> (env.baseUrl /\ env.apiKey)
         /\ status # "failed"
         /\ apiCalls # {} => apiClient = "client" )
  /\ [][apiClient' = apiClient /\ env' = env]_vars

\* C15: every tools/list response lists the registered tools once each, in
\* registration order, with name, description and inputSchema only,
\* whatever was handled before it.
C15_StableListing ==
  \A k \in 1..Len(out) :
    out[k].result = "tools" =>
      /\ Len(out[k].names) = Len(getToolNames)
      /\ \A j \in 1..Len(getToolNames) :
           /\ out[k].names[j].name = getToolNames[j]
           /\ out[k].names[j].fields = DescriptorFields
      /\ \A i, j \in 1..Len(out[k].names) :
           out[k].names[i].name = out[k].names[j].name => i = j
      /\ \A m \in 1..Len(out) : out[m].result = "tools" => out[m].names = out[k].names

\* C15 witness: a tools/list answered after a failed tools/call.
C15_Witness ==
  /\ Len(out) = 2
  /\ out[1].code = ToolNotFoundCode
  /\ out[2].result = "tools" /\ out[2].names = ListTools

\* Input line n is a call of a registered tool with a minimal set of
\* arguments its schema accepts: the principal field alone, or nothing at
\* all for discover_playbooks, whose schema requires no field.
MinimalValid(n) ==
  /\ RegisteredCall(n)
  /\ \/ lines[n].args = "main_ok"
     \/ lines[n].name = "discover_playbooks" /\ lines[n].args = "empty_obj"

\* The handler of line n called the backend and did not get usable content.
BackendFailed(n) ==
  n \in apiCalls /\ task[n].pc = "done" /\ task[n].outcome.text # "Results"

\* C11: a call of a listed tool with minimal valid arguments is answered
\* with a success envelope carrying text, never with an error, with the API
\* client configured (and its backend serving content) and without it.
C11_MinimalCallSucceeds ==
  \A n \in LineNos :
    (MinimalValid(n) /\ ~BackendFailed(n)) =>
      \A k \in RespondedBy(n) :
        /\ out[k].error = "none" /\ out[k].code # InternalErrorCode
        /\ out[k].result \notin {"none", "InvalidInput"}

\* request() has thrown the timeout error.
TimedOut ==
  req.result.state = "thrown" /\ req.result.error.text = "RequestTimeoutAfter"

\* C16: a call whose backend never responds ends, by the timer: it throws
\* 'Request timeout after Nms' with N the configured timeout, after
\* controller.abort(); a call whose response has arrived has no armed timer
\* and never reports a timeout.
C16_TimeoutNamesN ==
  /\ [](TimedOut =>
          /\ req.result.error = Err("Error", "RequestTimeoutAfter", req.timeout, << >>, "-")
          /\ req.aborted
          /\ req.status = NoStatus)
  /\ [](req.aborted => TimedOut)
  /\ [](req.status # NoStatus => ~req.timer)
  /\ []((req.pc = "done" /\ req.status = NoStatus) =>
          (TimedOut \/ req.result.error \in TransportErrors))
  /\ (req.pc = "fetch" ~> req.pc # "fetch")

\* C16 witness: a call with a timeout of 5000 ms has timed out.
C16_Witness ==
  /\ TimedOut /\ req.timeout = 5000 /\ req.aborted
  /\ req.result.error.arg = 5000

IsHtmlDocument(t) ==
  \E marker \in {"<!DOCTYPE", "<!doctype", "<html"} : StartsWith(Trim(t), marker)

\* A success response whose body was read.
SuccessBodyRead == req.pc = "done" /\ ResponseOk(req.status) /\ req.read

\* C18: a success response whose body begins with an HTML document marker
\* makes request() throw the HTML error, whatever the content type, and
\* JSON parsing is not attempted on the body.
C18_HtmlNeverParsed ==
  (SuccessBodyRead /\ IsHtmlDocument(req.body)) =>
    /\ req.result.state = "thrown"
    /\ req.result.error.text = "HtmlInsteadOfJson"
    /\ ~req.parsed

\* The declared content type is a JSON media type.
JsonMediaType(h) == h.present /\ StartsWith(h.value, "application/json")

ErrorKinds ==
  {"Auth", "RateLimit", "ServerError", "MalformedResponse", "Timeout",
   "NetworkFailure"}

KindOf(e) ==
  IF e.class # "Error" THEN "Unclassified"
  ELSE CASE e.text = "AuthenticationFailed" -> "Auth"
         [] e.text = "RateLimitExceeded" -> "RateLimit"
         [] e.text \in {"ApiRequestFailed", "AccessDenied", "ServerError", "FromBody"} ->
              "ServerError"
         [] e.text \in {"HtmlInsteadOfJson", "NotJsonContentType", "JsonParseFailed"} ->
              "MalformedResponse"
         [] e.text = "RequestTimeoutAfter" -> "Timeout"
         [] e.text = "NetworkFailure" -> "NetworkFailure"
         [] OTHER -> "Unclassified"

\* C20: whatever request() throws is an error of one of the kinds; a
\* failure of the transport is thrown as a NetworkFailure error that
\* carries the transport's message, never as the transport's own exception.
C20_EveryFailureClassified ==
  req.result.state = "thrown" =>
    /\ KindOf(req.result.error) \in ErrorKinds
    /\ (req.status = NoStatus /\ ~req.aborted) =>
         /\ KindOf(req.result.error) = "NetworkFailure"
         /\ req.result.error.detail \in {"ECONNREFUSED", "ENOTFOUND"}

\* The scheme tokens a credential may already start with.
SchemeTokens == {"Bearer ", "MCP-Key "}

\* C21: the Authorization header of every POST is the configured credential
\* itself when that starts with 'Bearer ' or 'MCP-Key ', and 'Bearer '
\* followed by the credential otherwise; it never starts with two scheme
\* tokens.
C21_AuthorizationHeader ==
  \A k \in 1..Len(req.sent) :
    LET a == req.sent[k].authorization
    IN  /\ a = IF Head(req.apiKey) \in SchemeTokens
                 THEN req.apiKey ELSE <<"Bearer ">> \o req.apiKey
        /\ ~(Len(a) >= 2 /\ a[1] \in SchemeTokens /\ a[2] \in SchemeTokens)

\* C22: a call of request() has issued exactly one POST from the moment it
\* called fetch, whatever it settles with.
C22_OnePostPerRequest ==
  Len(req.sent) = IF req.pc = "idle" THEN 0 ELSE 1

\* C22 witness: a call answered with 429 has settled after one POST.
C22_Witness ==
  /\ req.pc = "done" /\ req.status = 429
  /\ req.result.state = "thrown" /\ Len(req.sent) = 1

\* How often the token x occurs in t.
CountOf(t, x) == Cardinality({k \in 1..Len(t) : t[k] = x})

\* C23, for the ApiClient of src/auth/apiClient.ts: the URL of every POST
\* is the base URL followed by the endpoint the caller passed; and when a
\* tool handler calls a client whose base URL ends in '/api/mcp', the URL
\* holds '/api/mcp' once.
C23_UrlVerbatim ==
  req.variant = "apiClient" =>
    \A k \in 1..Len(req.sent) :
      /\ req.sent[k].url = req.baseUrl \o req.endpoint
      /\ (req.caller \in Range(getToolNames)
            /\ req.baseUrl[Len(req.baseUrl)] = "/api/mcp")
           => CountOf(req.sent[k].url, "/api/mcp") = 1

\* C24: testConnection never throws; it returns connected = TRUE with the
\* server info exactly when its request returned, and connected = FALSE
\* with the message of the error when its request threw.
C24_TestConnectionNeverRaises ==
  /\ req.conn.state # "thrown"
  /\ req.conn.state = "returned" =>
       /\ req.caller = "testConnection" /\ req.pc = "done"
       /\ req.conn.connected <=> req.result.state = "returned"
       /\ req.conn.connected =>
            /\ req.conn.serverInfo = <<req.baseUrl, "1.0.0">>
            /\ req.conn.error = [text |-> "-", arg |-> "-", detail |-> "-"]
       /\ ~req.conn.connected =>
            /\ req.conn.serverInfo = << >>
            /\ req.conn.error = [text   |-> req.result.error.text,
                                 arg    |-> req.result.error.arg,
                                 detail |-> req.result.error.detail]

\* C24 witness: testConnection has returned connected = FALSE after its
\* request timed out.
C24_Witness ==
  /\ req.conn.state = "returned" /\ ~req.conn.connected
  /\ req.conn.error.text = "RequestTimeoutAfter"
  /\ req.conn.error.arg = req.timeout

\* C30: every call of request() completes once the timer may fire, and a
\* completed call has no armed timer.
C30_RequestCompletes ==
  /\ (req.pc = "fetch" ~> req.pc = "done")
  /\ [](req.pc = "done" => ~req.timer)

\* The request() of line n's handler has thrown.
RequestFailed(n) ==
  n \in apiCalls /\ task[n].pc = "done" /\ task[n].outcome.cause # "-"

\* Line n is answered with the handler's returned text `text`, in a success
\* envelope.
AnsweredWithText(n, text) ==
  /\ task[n].outcome.ret /\ task[n].outcome.text = text
  /\ \A k \in RespondedBy(n) :
       /\ out[k].error = "none" /\ out[k].code # InternalErrorCode
       /\ out[k].result = text

\* C25: when the request of a valid find_sales_content call fails, the call
\* is answered with a success envelope whose text explains the API failure
\* (quoting the error) and goes on with the demo results, never with
\* -32603.
C25_FallbackOnApiFailure ==
  \A n \in LineNos :
    (RegisteredCall(n) /\ lines[n].name = "find_sales_content" /\ RequestFailed(n)) =>
      /\ AnsweredWithText(n, "ApiErrorThenDemoResults")
      /\ \A k \in RespondedBy(n) : out[k].cause = task[n].outcome.cause

\* C26: when the request of a valid get_competitive_intel call fails with a
\* message containing 'No competitive intelligence found', the handler
\* returns the 'No Competitive Intelligence Found' text and the call is
\* answered with it.
C26_CompetitorNotFoundText ==
  \A n \in LineNos :
    ( /\ RegisteredCall(n) /\ lines[n].name = "get_competitive_intel"
      /\ RequestFailed(n) /\ task[n].outcome.cause = NotFoundMessage )
    => AnsweredWithText(n, "NoCompetitorFound")

\* C27: a discover_playbooks call whose arguments pass the schema and hold
\* no filter is answered with the returned 'Please provide at least one
\* filter' text, in a success envelope.
C27_MissingFilterText ==
  \A n \in LineNos :
    ( /\ RegisteredCall(n) /\ lines[n].name = "discover_playbooks"
      /\ lines[n].args = "empty_obj" /\ task[n].pc \in {"micro", "done"} )
    => AnsweredWithText(n, "MissingFilters")

\* C28: a message the server's 'line' callback logs at level L is written
\* exactly when rank(L) <= rank(configured level); a message of level error
\* is written whatever MCP_LOG_LEVEL holds.
C28_LevelFilter ==
  \A n \in 1..Len(lines) :
    \A d \in Range(DispatchDiags(lines[n], build, apiClient)) :
      d.level \in DOMAIN levels =>
        ( d \in Range(err) <=>
            \/ d.level = "error"
            \/ logLevel \in DOMAIN levels /\ levels[d.level] <= levels[logLevel] )

\* C29: the names of the registry are distinct, and the lookup of the name
\* of a tools/call finds a tool exactly when the name is registered and
\* finds nothing for every other name, which is then answered as not found.
C29_LookupExactlyRegistered ==
  /\ Cardinality(Range(getToolNames)) = Len(getToolNames)
  /\ \A n \in 1..Len(lines) :
       (lines[n].v = "obj" /\ lines[n].method = "tools/call" /\ lines[n].params = "obj") =>
         /\ getTool(lines[n].name) = "tool" <=> lines[n].name \in Range(getToolNames)
         /\ lines[n].name \notin Range(getToolNames) =>
              /\ getTool(lines[n].name) = "undefined"
              /\ \A k \in RespondedBy(n) : out[k].error = "ToolNotFound"

====
